---- MODULE Spec2Model ----
(***************************************************************************)
(* A model of the RAG orchestrator of multimodal_rag.py (RAGSystem) and of *)
(* the command surface of cli.py.                                          *)
(*                                                                         *)
(* Paths, file names and index names are strings, taken apart character    *)
(* by character the way os.path and str.split take them apart.  A page     *)
(* image is the record [doc |-> file, page |-> n]: page n of that file.    *)
(* The three collaborators (retriever, rasterizer, generator) are modelled *)
(* by their contracts at the places the orchestrator calls them; whether a *)
(* collaborator raises is an input of the call.                            *)
(***************************************************************************)
EXTENDS Integers, Sequences, FiniteSets, TLC

VARIABLES
    index_name,    \* self.index_name: None or Some(name)
    doc_images,    \* self.doc_images: doc_id -> sequence of page images
    docs,          \* the retriever's collection: doc_id i is docs[i + 1]
    temp_exists,   \* whether <index_path>/temp_index exists
    temp_files,    \* the files staged in <index_path>/temp_index
    render_calls,  \* doc_id -> rasterizer invocations made for it by this RAGSystem
    render_done,   \* doc_id -> rasterizer invocations that returned
    created,       \* index_documents has created an index for this RAGSystem
    folder_indexed,\* an index built from a folder is on durable storage
    last           \* the last call: its arguments, what it invoked, how it exited

vars == <<index_name, doc_images, docs, temp_exists, temp_files,
          render_calls, render_done, created, folder_indexed, last>>

---------------------------------------------------------------------------
(* Bounds of the model. *)

\* the longest file_paths list
MaxFiles == 2
\* the largest top_k, hence the longest result list
MaxTopK == 1
\* rasterizer invocations per doc_id that one RAGSystem is followed through
MaxRenderCalls == 2

---------------------------------------------------------------------------
(* Python values. *)

None == <<>>
Some(x) == <<x>>
Val(o) == o[1]

\* truth value of an Optional[str]: None and "" are false
Truthy(o) == o /= None /\ Val(o) /= ""

---------------------------------------------------------------------------
(* The files of the environment. *)

\* the sample document of create_sample.py, a document whose name has two dots, and
\* a path at which there is no file
SampleFile == "sample_pdfs/sample.pdf"
DottedFile == "sample_pdfs/sample.v2.pdf"
MissingFile == "sample_pdfs/missing.pdf"
Folder == "sample_pdfs/"

Paths == {SampleFile, DottedFile, MissingFile}
\* os.path.exists
Existing == {SampleFile, DottedFile}
\* the files of Folder, and of any directory, in the order the retriever lists them
ListingOrder == <<SampleFile, DottedFile>>
\* number of pages of a file
PageCount(f) == IF f = SampleFile THEN 2 ELSE 1

DocIds == 0 .. (Len(ListingOrder) - 1)
\* the page numbers a search result may carry: from one below the first page to the
\* last page of the longest document (out of range, then, for the shorter one)
PageNums == 0 .. PageCount(SampleFile)

---------------------------------------------------------------------------
(* Strings, as os.path and str take them apart. *)

Char(s, i) == SubSeq(s, i, i)

\* position of the first c in s, 0 when there is none (str.find, 1-based)
RECURSIVE FindFrom(_, _, _)
FindFrom(s, c, i) ==
    IF i > Len(s) THEN 0
    ELSE IF Char(s, i) = c THEN i
    ELSE FindFrom(s, c, i + 1)

\* position of the last c in s, 0 when there is none (str.rfind, 1-based)
RECURSIVE RFindFrom(_, _, _)
RFindFrom(s, c, i) ==
    IF i < 1 THEN 0
    ELSE IF Char(s, i) = c THEN i
    ELSE RFindFrom(s, c, i - 1)

\* os.path.basename: what follows the last "/"
basename(p) == SubSeq(p, RFindFrom(p, "/", Len(p)) + 1, Len(p))

\* os.path.normpath on the paths of this model (no "..", "." or "//" inside):
\* trailing slashes go, the empty path is "."
RECURSIVE normpath(_)
normpath(p) ==
    IF p = "" THEN "."
    ELSE IF Len(p) > 1 /\ Char(p, Len(p)) = "/" THEN normpath(SubSeq(p, 1, Len(p) - 1))
    ELSE p

\* s.split('.')[0]: what precedes the first "."
SplitDotFirst(s) ==
    LET i == FindFrom(s, ".", 1)
    IN  IF i = 0 THEN s ELSE SubSeq(s, 1, i - 1)

---------------------------------------------------------------------------
(* The collaborators, by contract. *)

\* the files of a set as the retriever lists them: doc ids are given in this order
RECURSIVE Listed(_, _)
Listed(S, i) ==
    IF i > Len(ListingOrder) THEN <<>>
    ELSE (IF ListingOrder[i] \in S THEN <<ListingOrder[i]>> ELSE <<>>) \o Listed(S, i + 1)

\* the documents under a directory given to the retriever
FolderFiles(path) == IF normpath(path) = normpath(Folder) THEN ListingOrder ELSE <<>>

\* pdf2image.convert_from_path: the ordered page images of a file
convert_from_path(f) == [n \in 1 .. PageCount(f) |-> [doc |-> f, page |-> n]]

\* RAGMultiModalModel.get_document_path: None when the retriever has no such doc_id
get_document_path(collection, doc_id) ==
    IF doc_id + 1 \in DOMAIN collection THEN Some(collection[doc_id + 1]) ELSE None

\* RAGMultiModalModel.index: when it raises (an existing index and overwrite off, a
\* failure of its own) is the retriever's business and an input of the call;
\* otherwise the collection becomes the documents given, with doc ids 0, 1, ... in
\* listing order
retriever_index(s, input_docs, name, overwrite, index_raises) ==
    IF index_raises
    THEN [s EXCEPT !.raised = TRUE]
    ELSE [s EXCEPT !.raised = FALSE, !.docs = input_docs, !.created = TRUE]

---------------------------------------------------------------------------
(* The record of a call: its arguments, what it invoked, how it exited. *)

NoCall ==
    [op |-> "none", cli |-> FALSE, outcome |-> "none", path |-> "",
     folder_path |-> None, file_paths |-> None, index_name |-> None,
     index_called |-> FALSE, index_passed |-> None, copied |-> <<>>,
     results |-> <<>>, search_called |-> FALSE, gen_called |-> FALSE,
     gen_images |-> <<>>, rendered |-> <<>>, looked_up |-> <<>>]

\* the call leaves with this outcome (an error's name, or how it returned)
Exit(s, outcome, path) == [s EXCEPT !.call.outcome = outcome, !.call.path = path]

---------------------------------------------------------------------------
(* RAGSystem.index_documents *)

\* lines 106-111: the index name when none is given
DeriveIndexName(folder_path, file_paths) ==
    IF Truthy(folder_path)
    THEN [err |-> "ok", name |-> basename(normpath(Val(folder_path)))]
    ELSE IF file_paths = None
    THEN [err |-> "TypeError", name |-> ""]
    ELSE IF Len(Val(file_paths)) = 0
    THEN [err |-> "IndexError", name |-> ""]
    ELSE [err |-> "ok", name |-> SplitDotFirst(basename(Val(file_paths)[1]))]

\* shutil.copy2 into the staging directory: a file of the same base name is replaced
copy2(staged, f) == {g \in staged : basename(g) /= basename(f)} \cup {f}

\* lines 131-136: check and copy the listed files one after the other
RECURSIVE CopyLoop(_, _, _, _)
CopyLoop(s, files, i, copy_fail_at) ==
    IF i > Len(files) THEN Exit(s, "ok", "")
    ELSE IF files[i] \notin Existing THEN Exit(s, "FileNotFound", files[i])
    ELSE IF i = copy_fail_at THEN Exit(s, "CopyError", files[i])
    ELSE CopyLoop([s EXCEPT !.temp_files = copy2(@, files[i]),
                            !.call.copied = Append(@, files[i])],
                  files, i + 1, copy_fail_at)

\* lines 116-123: index a folder
IndexFolder(s, folder, name, overwrite, index_raises) ==
    LET t == retriever_index([s EXCEPT !.call.index_called = TRUE,
                                       !.call.index_passed = Some(name)],
                             FolderFiles(folder), name, overwrite, index_raises)
    IN  IF t.raised THEN Exit(t, "IndexerError", "")
        ELSE Exit([t EXCEPT !.folder_indexed = TRUE], "ok", "")

\* lines 124-147: stage the listed files, index the staging directory, remove it
IndexFiles(s, file_paths, name, overwrite, index_raises, copy_fail_at) ==
    LET made == [s EXCEPT !.temp_exists = TRUE]
    IN  IF file_paths = None THEN Exit(made, "TypeError", "")
        ELSE
        LET staged == CopyLoop(made, Val(file_paths), 1, copy_fail_at)
        IN  IF staged.call.outcome /= "ok" THEN staged
            ELSE
            LET t == retriever_index([staged EXCEPT !.call.index_called = TRUE,
                                                    !.call.index_passed = Some(name)],
                                     Listed(staged.temp_files, 1), name,
                                     overwrite, index_raises)
            IN  IF t.raised THEN Exit(t, "IndexerError", "")
                ELSE Exit([t EXCEPT !.temp_exists = FALSE, !.temp_files = {}], "ok", "")

\* lines 102-103: the argument check
ArgumentsRejected(folder_path, file_paths) == folder_path = None /\ file_paths = None

\* lines 113-147: record the index name, then create the index
RecordAndIndex(s, folder_path, file_paths, name, overwrite, index_raises, copy_fail_at) ==
    LET named == [s EXCEPT !.index_name = Some(name)]
    IN  IF Truthy(folder_path)
        THEN IndexFolder(named, Val(folder_path), name, overwrite, index_raises)
        ELSE IndexFiles(named, file_paths, name, overwrite, index_raises, copy_fail_at)

\* lines 86-149; index_raises: the retriever's index() raises; copy_fail_at: the
\* position in file_paths at which shutil.copy2 raises (0: nowhere)
index_documents(s0, folder_path, file_paths, index_name_arg, overwrite, index_raises, copy_fail_at) ==
    LET s == [s0 EXCEPT !.call = [NoCall EXCEPT !.op = "index_documents",
                                                !.cli = s0.call.cli,
                                                !.folder_path = folder_path,
                                                !.file_paths = file_paths,
                                                !.index_name = index_name_arg]]
    IN  IF ArgumentsRejected(folder_path, file_paths)
        THEN Exit(s, "InvalidArgument", "")
        ELSE
        LET d == IF index_name_arg /= None
                 THEN [err |-> "ok", name |-> Val(index_name_arg)]
                 ELSE DeriveIndexName(folder_path, file_paths)
        IN  IF d.err /= "ok" THEN Exit(s, d.err, "")
            ELSE RecordAndIndex(s, folder_path, file_paths, d.name, overwrite,
                                index_raises, copy_fail_at)

---------------------------------------------------------------------------
(* RAGSystem._get_document_images and RAGSystem.answer_question *)

CacheHit_never(cache, doc_id) == FALSE

\* whether doc_id is in the cache (line 161)
CacheHit(cache, doc_id) == doc_id \in DOMAIN cache

\* line 172: store the rendered pages under doc_id
CacheStore(cache, doc_id, images) ==
    [d \in DOMAIN cache \cup {doc_id} |-> IF d = doc_id THEN images ELSE cache[d]]

\* lines 161-174; raise_at: which of this call's rasterizer invocations raises (0:
\* none; the call ends at the first that does).  The pages are left in the field got.
get_document_images(s, doc_id, raise_at) ==
    IF CacheHit(s.doc_images, doc_id)
    THEN [Exit(s, "ok", "") EXCEPT !.got = s.doc_images[doc_id]]
    ELSE
    LET doc_info == get_document_path(s.docs, doc_id)
        looked == [s EXCEPT !.call.looked_up = Append(@, doc_id)]
    IN  IF doc_info = None THEN Exit(looked, "DocumentNotFound", "")
        ELSE
        LET called == [looked EXCEPT !.render_calls[doc_id] = @ + 1,
                                     !.call.rendered = Append(@, doc_id)]
        IN  IF Len(called.call.rendered) = raise_at
            THEN Exit(called, "RenderError", Val(doc_info))
            ELSE
            LET images == convert_from_path(Val(doc_info))
            IN  [Exit(called, "ok", "") EXCEPT
                    !.doc_images = CacheStore(@, doc_id, images),
                    !.render_done[doc_id] = @ + 1,
                    !.got = images]

\* line 215: the page is one of the document's
PageInRange(image_index, n) == 0 <= image_index /\ image_index < n

\* lines 204-218: the images of the retrieved pages, left in the field got
RECURSIVE ResolveLoop(_, _, _, _, _)
ResolveLoop(s, results, i, retrieved_images, raise_at) ==
    IF i > Len(results) THEN [Exit(s, "ok", "") EXCEPT !.got = retrieved_images]
    ELSE
    LET g == get_document_images(s, results[i].doc_id, raise_at)
        image_index == results[i].page_num - 1
    IN  IF g.call.outcome /= "ok" THEN g
        ELSE ResolveLoop(g, results, i + 1,
                         IF PageInRange(image_index, Len(g.got))
                         THEN Append(retrieved_images, g.got[image_index + 1])
                         ELSE retrieved_images,
                         raise_at)

\* lines 193-194: the check that documents have been indexed
NotIndexed(s) == s.index_name = None

NoResults_never(results) == FALSE

\* line 200: the search found nothing
NoResults(results) == Len(results) = 0

\* lines 193-271; results: what the retriever's search returns for the question
answer_question(s0, results, raise_at) ==
    LET s == [s0 EXCEPT !.call = [NoCall EXCEPT !.op = "answer_question",
                                                !.cli = s0.call.cli]]
    IN  IF NotIndexed(s) THEN Exit(s, "NotIndexed", "")
        ELSE
        LET searched == [s EXCEPT !.call.search_called = TRUE,
                                  !.call.results = results]
        IN  IF NoResults(results) THEN Exit(searched, "NoRelevantDocuments", "")
            ELSE
            LET r == ResolveLoop(searched, results, 1, <<>>, raise_at)
            IN  IF r.call.outcome /= "ok" THEN r
                ELSE IF Len(r.got) = 0 THEN Exit(r, "FailedToRetrieveImages", "")
                ELSE Exit([r EXCEPT !.call.gen_called = TRUE,
                                    !.call.gen_images = r.got],
                          "Answer", "")

---------------------------------------------------------------------------
(* The state machine. *)

\* RAGSystem.__init__ (lines 82-84, and line 42: a retriever with no collection)
\* in the file system as it is
Constructed(cli) ==
    [index_name |-> None,
     doc_images |-> <<>>,
     docs |-> <<>>,
     temp_exists |-> temp_exists,
     temp_files |-> temp_files,
     created |-> FALSE,
     folder_indexed |-> folder_indexed,
     render_calls |-> [d \in DocIds |-> 0],
     render_done |-> [d \in DocIds |-> 0],
     raised |-> FALSE,
     got |-> <<>>,
     call |-> [NoCall EXCEPT !.cli = cli]]

\* the RAGSystem that lives on between the calls of a session
Self ==
    [Constructed(FALSE) EXCEPT !.index_name = index_name,
                               !.doc_images = doc_images,
                               !.docs = docs,
                               !.created = created,
                               !.render_calls = render_calls,
                               !.render_done = render_done]

\* the state a call leaves behind
Leaves(r) ==
    /\ index_name' = r.index_name
    /\ doc_images' = r.doc_images
    /\ docs' = r.docs
    /\ temp_exists' = r.temp_exists
    /\ temp_files' = r.temp_files
    /\ created' = r.created
    /\ folder_indexed' = r.folder_indexed
    /\ render_calls' = r.render_calls
    /\ render_done' = r.render_done
    /\ last' = r.call

RECURSIVE SeqsUpTo(_, _)
SeqsUpTo(S, n) ==
    IF n = 0 THEN {<<>>}
    ELSE LET shorter == SeqsUpTo(S, n - 1)
         IN  shorter \cup {Append(q, x) : q \in {t \in shorter : Len(t) = n - 1}, x \in S}

\* the arguments index_documents is followed with
FolderArgs == {None, Some(Folder)}
FileArgs == {None} \cup {Some(q) : q \in SeqsUpTo(Paths, MaxFiles)}
NameArgs == {None, Some("idx")}
\* the arguments it is followed with between questions
SessionFolderArgs == {None, Some(Folder)}
SessionFileArgs == {None, Some(<<DottedFile>>)}
\* the arguments cli.py index is followed with (--files takes one path or more)
CliFolderArgs == {None, Some(Folder)}
CliFileArgs == {None} \cup {Some(<<f>>) : f \in Paths}
\* what a search may return
Results == [doc_id : DocIds, page_num : PageNums]
ResultLists == SeqsUpTo(Results, MaxTopK)

Init ==
    /\ index_name = None
    /\ doc_images = <<>>
    /\ docs = <<>>
    /\ temp_exists = FALSE
    /\ temp_files = {}
    /\ render_calls = [d \in DocIds |-> 0]
    /\ render_done = [d \in DocIds |-> 0]
    /\ created = FALSE
    /\ folder_indexed = FALSE
    /\ last = NoCall

\* a call of index_documents on the living RAGSystem (multimodal_rag.py line 280)
IndexDocumentsOf(folders, files, names, overwrites, fail_at) ==
    \E folder_path \in folders, file_paths \in files, name \in names,
       overwrite \in overwrites, index_raises \in BOOLEAN, copy_fail_at \in fail_at :
       \E r \in {index_documents(Self, folder_path, file_paths, name, overwrite,
                                 index_raises, copy_fail_at)} : Leaves(r)

IndexDocuments ==
    IndexDocumentsOf(FolderArgs, FileArgs, NameArgs, {FALSE}, 0 .. MaxFiles)

SessionIndexDocuments ==
    IndexDocumentsOf(SessionFolderArgs, SessionFileArgs, {None}, {FALSE}, {0})

\* a call of answer_question on the living RAGSystem (multimodal_rag.py line 283)
AnswerQuestion ==
    \E results \in ResultLists, raise_at \in 0 .. MaxTopK :
       \E r \in {answer_question(Self, results, raise_at)} :
           /\ \A d \in DocIds : r.render_calls[d] <= MaxRenderCalls
           /\ Leaves(r)

\* cli.py index: parse_args, then main in a process of its own (lines 104-105, 112-132)
CliIndex ==
    \E folder \in CliFolderArgs, files \in CliFileArgs, name \in NameArgs,
       overwrite \in BOOLEAN, index_raises \in BOOLEAN, copy_fail_at \in {0} :
       IF folder = None /\ files = None
       THEN /\ last' = [NoCall EXCEPT !.op = "index_documents", !.cli = TRUE,
                                      !.outcome = "UsageError"]
            /\ UNCHANGED <<index_name, doc_images, docs, temp_exists, temp_files,
                           render_calls, render_done, created, folder_indexed>>
       ELSE \E r \in {index_documents(Constructed(TRUE), folder, files, name,
                                      overwrite, index_raises, copy_fail_at)} : Leaves(r)

\* cli.py ask: main in a process of its own (lines 112-122, 134-144)
CliAsk ==
    \E results \in ResultLists, raise_at \in 0 .. MaxTopK :
       \E r \in {answer_question(Constructed(TRUE), results, raise_at)} : Leaves(r)

\* a session on one RAGSystem: indexing and questions in any order
Next == SessionIndexDocuments \/ AnswerQuestion
Spec == Init /\ [][Next]_vars

\* index_documents alone, over all its arguments
NextIndex == IndexDocuments
SpecIndex == Init /\ [][NextIndex]_vars

\* the command surface: every command is a process of its own
NextCli == CliIndex \/ CliAsk
SpecCli == Init /\ [][NextCli]_vars

---------------------------------------------------------------------------
(* The claims. *)

IsIndexCall == last.op = "index_documents" /\ last.outcome /= "UsageError"
IsAnswerCall == last.op = "answer_question"
\* the last call was index_documents(file_paths=L) with L non-empty and no folder
FilesCall ==
    /\ IsIndexCall
    /\ last.folder_path = None
    /\ last.file_paths /= None
    /\ Len(Val(last.file_paths)) > 0

\* C1: when index_documents(file_paths=L), L non-empty, has exited, normally or
\* with an error, the staging directory does not exist.
C1_StagingRemovedOnEveryExit == FilesCall => ~temp_exists

\* C2: when a listed path does not exist, index_documents fails with FileNotFound
\* naming a missing listed path, with no listed file copied into the staging
\* directory and the retriever's index() not invoked, wherever the path stands.
C2_MissingFileFailsBeforeAnyCopy ==
    (FilesCall /\ \E i \in DOMAIN Val(last.file_paths) : Val(last.file_paths)[i] \notin Existing)
    => /\ last.outcome = "FileNotFound"
       /\ last.path \notin Existing
       /\ \E i \in DOMAIN Val(last.file_paths) : Val(last.file_paths)[i] = last.path
       /\ last.copied = <<>>
       /\ ~last.index_called

\* C3: as long as index_documents has created no index for this RAGSystem,
\* answer_question fails with NotIndexed and invokes neither the retriever's
\* search nor the generator.
C3_NotIndexedUntilAnIndexIsCreated ==
    (IsAnswerCall /\ ~created)
    => /\ last.outcome = "NotIndexed"
       /\ ~last.search_called
       /\ ~last.gen_called

\* C4: index_documents fails with InvalidArgument, indexing nothing, whenever it
\* is not the case that exactly one of folder_path and file_paths is non-null.
C4_ExactlyOneSourceOrInvalidArgument ==
    (IsIndexCall /\ ((last.folder_path = None) = (last.file_paths = None)))
    => /\ last.outcome = "InvalidArgument"
       /\ ~last.index_called

\* a step of answer_question, with an index name recorded, whose search returns no
\* result: what C5 says of it
C5_EmptySearchStep ==
    (index_name /= None /\ last'.op = "answer_question"
        /\ last'.search_called /\ last'.results = <<>>)
    => /\ last'.outcome = "NoRelevantDocuments"
       /\ ~last'.gen_called
       /\ last'.rendered = <<>>
       /\ last'.looked_up = <<>>
       /\ render_calls' = render_calls
       /\ doc_images' = doc_images

\* C5: with an index name recorded, a search that returns no result makes
\* answer_question return the "no relevant documents" sentinel with the generator
\* and the rasterizer not invoked and the document image cache as it was.
C5_EmptySearchReturnsSentinel == [][C5_EmptySearchStep]_vars

\* a question got the sentinel for an empty search while the cache held pages
C5_Witness ==
    /\ IsAnswerCall
    /\ last.search_called
    /\ last.results = <<>>
    /\ last.outcome = "NoRelevantDocuments"
    /\ doc_images /= <<>>

\* C6: every doc_id of the document image cache maps to the complete, ordered page
\* images of the document the retriever now identifies by doc_id.
C6_CacheHoldsTheRetrieversDocuments ==
    \A d \in DOMAIN doc_images :
        /\ get_document_path(docs, d) /= None
        /\ doc_images[d] = convert_from_path(Val(get_document_path(docs, d)))

\* C7 as stated: the rasterizer is invoked at most once per doc_id in the
\* lifetime of the RAGSystem.
C7_RasterizerInvokedAtMostOnce == \A d \in DocIds : render_calls[d] <= 1

Range(q) == {q[i] : i \in DOMAIN q}

\* the pages a result list selects from the cached sequences, in rank order
RECURSIVE PagesFrom(_, _, _)
PagesFrom(cache, results, i) ==
    IF i > Len(results) THEN <<>>
    ELSE LET d == results[i].doc_id
             n == results[i].page_num
         IN  (IF d \in DOMAIN cache /\ 1 <= n /\ n <= Len(cache[d])
              THEN <<cache[d][n]>>
              ELSE <<>>) \o PagesFrom(cache, results, i + 1)

\* C7 as amended, in every state: the rasterizer has returned at most once per
\* doc_id, and an entry is in the cache exactly when it has.
C7_StoredOnce ==
    \A d \in DocIds :
        /\ render_done[d] <= 1
        /\ render_done[d] <= render_calls[d]
        /\ (render_done[d] = 1) = (d \in DOMAIN doc_images)

\* how often d stands in q
Count(d, q) == Cardinality({i \in DOMAIN q : q[i] = d})

\* C7 as amended, in every step: a stored entry stays as it is, and a get of its
\* doc_id invokes neither the rasterizer nor the retriever's path lookup; a get of
\* a doc_id without an entry invokes the rasterizer once, and the entry is stored
\* exactly when that invocation returns; the pages a completed question hands on
\* are those of the stored sequences.
C7_HitStep ==
    /\ \A d \in DocIds \ DOMAIN doc_images :
        last'.op = "answer_question" =>
            /\ Count(d, last'.rendered) <= 1
            /\ render_calls'[d] = render_calls[d] + Count(d, last'.rendered)
            /\ (d \in DOMAIN doc_images') = (render_done'[d] = render_done[d] + 1)
            /\ (d \in DOMAIN doc_images') =
                   (/\ Count(d, last'.rendered) = 1
                    /\ ~(last'.outcome = "RenderError"
                            /\ last'.rendered[Len(last'.rendered)] = d))
    /\ \A d \in DOMAIN doc_images :
        /\ d \in DOMAIN doc_images'
        /\ doc_images'[d] = doc_images[d]
        /\ render_calls'[d] = render_calls[d]
        /\ render_done'[d] = render_done[d]
        /\ last'.op = "answer_question" =>
              (d \notin Range(last'.rendered) /\ d \notin Range(last'.looked_up))
    /\ (last'.op = "answer_question"
            /\ last'.outcome \in {"Answer", "FailedToRetrieveImages"}) =>
          last'.gen_images = PagesFrom(doc_images', last'.results, 1)

\* C7 as amended: a rasterization is stored only when the rasterizer returns, which
\* it does at most once per doc_id; from then on every get(doc_id) returns the
\* stored sequence, with neither the rasterizer nor the path lookup invoked again.
C7_RasterizerReturnsAtMostOnce == [](C7_StoredOnce) /\ [][C7_HitStep]_vars

\* a doc_id whose rasterization raised once and returned once was then served
\* from the cache
C7_Witness ==
    /\ IsAnswerCall
    /\ last.outcome = "Answer"
    /\ last.rendered = <<>>
    /\ \E i \in DOMAIN last.results :
          /\ render_calls[last.results[i].doc_id] = 2
          /\ render_done[last.results[i].doc_id] = 1

\* C8: after a `cli.py index --folder` invocation has completed successfully, a
\* `cli.py ask` invocation queries the indexed documents and prints an answer.
C8_AskAfterIndexAnswers ==
    (IsAnswerCall /\ last.cli /\ folder_indexed)
    => /\ last.search_called
       /\ last.outcome \in {"Answer", "NoRelevantDocuments", "FailedToRetrieveImages"}

\* the pages of the retriever's documents that a result list names, in rank order
RECURSIVE PagesNamed(_, _)
PagesNamed(results, i) ==
    IF i > Len(results) THEN <<>>
    ELSE LET info == get_document_path(docs, results[i].doc_id)
             n == results[i].page_num
         IN  (IF info /= None /\ 1 <= n /\ n <= PageCount(Val(info))
              THEN <<[doc |-> Val(info), page |-> n]>>
              ELSE <<>>) \o PagesNamed(results, i + 1)

\* C9: when answer_question has gone through a non-empty result list, the images
\* it gave the generator are, in rank order, page page_num of document doc_id for
\* the results with page_num in 1..N; with none in range it returned the "failed
\* to retrieve images" sentinel and did not invoke the generator.
C9_GeneratorGetsTheRetrievedPages ==
    (IsAnswerCall /\ last.results /= <<>>
        /\ last.outcome \in {"Answer", "FailedToRetrieveImages"})
    => LET pages == PagesNamed(last.results, 1)
       IN  IF pages = <<>>
           THEN last.outcome = "FailedToRetrieveImages" /\ ~last.gen_called
           ELSE last.outcome = "Answer" /\ last.gen_called /\ last.gen_images = pages

\* os.path.splitext(s)[0]: s without its final extension
StripFinalExtension(s) ==
    LET i == RFindFrom(s, ".", Len(s))
    IN  IF i <= 1 THEN s ELSE SubSeq(s, 1, i - 1)

\* C10: with index_name omitted, the name recorded and passed to the retriever's
\* index() is the base name of folder_path when a folder is given, and otherwise
\* the base name of the first listed file without its final extension.
C10_DerivedIndexName ==
    (IsIndexCall /\ last.index_name = None
        /\ last.outcome \notin {"InvalidArgument", "TypeError", "IndexError"})
    => LET name == IF Truthy(last.folder_path)
                   THEN basename(normpath(Val(last.folder_path)))
                   ELSE StripFinalExtension(basename(Val(last.file_paths)[1]))
       IN  /\ index_name = Some(name)
           /\ last.index_called => last.index_passed = Some(name)

====
